---- MODULE Spec2Model ----
(***************************************************************************)
(* The Stockholm reader of skbio/io/format/stockholm.py as a state machine.*)
(*                                                                         *)
(* A Python str is a sequence of one-character strings, a stream is a      *)
(* sequence of lines (each line keeps its trailing "\n"), a dict is a      *)
(* function whose domain is its key set, and a list of characters          *)
(* (list(token)) is a sequence of one-character strs.  Python's 0-based    *)
(* line[k] is the (k+1)-th element here.                                   *)
(***************************************************************************)
EXTENDS Integers, Sequences, FiniteSets, TLC

VARIABLES fh, pos, pc, dna_data, metadata, positional_metadata, seqs,
          result, err, calls, start, prev

vars == <<fh, pos, pc, dna_data, metadata, positional_metadata, seqs,
          result, err, calls, start, prev>>

\* ------------------------------------------------------------------ bounds

\* Longest stream, in lines.
MaxLines == 4

\* Number of times the reader is invoked on one stream.
MaxCalls == 2

\* Longest line given to the line classifier, in characters.
MaxLen == 3

\* ------------------------------------------------------- str primitives

\* The whitespace characters that have no escape in a string: U+000B
\* (vertical tab), U+001C to U+001F (the four separators), U+0085 (next
\* line), U+00A0 (no-break space) and U+1680 (ogham space mark).
VerticalTab    == ""
FileSeparator  == ""
GroupSeparator == ""
RecordSeparator == ""
UnitSeparator  == ""
NextLine       == ""
NoBreakSpace   == " "
OghamSpace     == " "

\* Characters str.split() and str.isspace() treat as whitespace.  Python
\* counts U+2000 to U+200A, U+2028, U+2029, U+202F, U+205F and U+3000 among
\* them as well; a string of this module cannot hold those, and no line of
\* the inputs does.
IsSpace(c) ==
    c \in {" ", "\t", "\n", "\r", "\f", VerticalTab, FileSeparator,
           GroupSeparator, RecordSeparator, UnitSeparator, NextLine,
           NoBreakSpace, OghamSpace}

\* s.startswith(prefix)
startswith(s, prefix) ==
    /\ Len(s) >= Len(prefix)
    /\ SubSeq(s, 1, Len(prefix)) = prefix

\* s.isspace(): at least one character and all of them whitespace.
isspace(s) == Len(s) > 0 /\ \A i \in 1..Len(s) : IsSpace(s[i])

\* s.rstrip('\n')
RECURSIVE rstrip_newline(_)
rstrip_newline(s) ==
    IF Len(s) > 0 /\ s[Len(s)] = "\n"
    THEN rstrip_newline(SubSeq(s, 1, Len(s) - 1))
    ELSE s

\* '\n' in s
HasNewline(s) == \E i \in 1..Len(s) : s[i] = "\n"

\* s.split(): runs of whitespace separate the fields, no empty field.
RECURSIVE SplitWsFrom(_, _, _, _)
SplitWsFrom(s, i, cur, acc) ==
    IF i > Len(s)
    THEN IF cur = <<>> THEN acc ELSE Append(acc, cur)
    ELSE IF IsSpace(s[i])
         THEN SplitWsFrom(s, i + 1, <<>>,
                          IF cur = <<>> THEN acc ELSE Append(acc, cur))
         ELSE SplitWsFrom(s, i + 1, Append(cur, s[i]), acc)

split(s) == SplitWsFrom(s, 1, <<>>, <<>>)

\* s.split(' ', maxsplit): every single space separates, at most maxsplit
\* times; empty fields are kept and the last field is the rest of s.
RECURSIVE SplitSpFrom(_, _, _, _, _)
SplitSpFrom(s, i, n, cur, acc) ==
    IF i > Len(s)
    THEN Append(acc, cur)
    ELSE IF s[i] = " " /\ n > 0
         THEN SplitSpFrom(s, i + 1, n - 1, <<>>, Append(acc, cur))
         ELSE SplitSpFrom(s, i + 1, n, Append(cur, s[i]), acc)

split_sp(s, maxsplit) == SplitSpFrom(s, 1, maxsplit, <<>>, <<>>)

\* Variant of list(s) that yields the characters in reverse order.
list_reversed(s) == [i \in 1..Len(s) |-> <<s[Len(s) + 1 - i]>>]

\* list(s): the list of the one-character strs of s.
list(s) == [i \in 1..Len(s) |-> <<s[i]>>]

\* ------------------------------------------------------------ dict, None

EmptyDict == [k \in {} |-> <<>>]

DictSet(d, k, v) == [x \in (DOMAIN d) \cup {k} |-> IF x = k THEN v ELSE d[x]]

\* An argument that is either a dict or None.
None == [isNone |-> TRUE, d |-> EmptyDict]
Some(d) == [isNone |-> FALSE, d |-> d]

\* A call that returned ret, or raised exc with its argument left as ret.
Return(ret) == [exc |-> "none", ret |-> ret]
Raise(exc, ret) == [exc |-> exc, ret |-> ret]

\* ----------------------------------------------------------- the handlers

\* _SeqData(seq, metadata, pos_metadata), stored under its name in the
\* OrderedDict dna_data, which is the sequence of its items in insertion order.
SeqData(name, seq, md, pmd) ==
    [name |-> name, seq |-> seq, metadata |-> md, pos_metadata |-> pmd]

\* list(dna_data.keys())
Keys(dd) == [i \in 1..Len(dd) |-> dd[i].name]

HasKey(dd, name) == \E i \in 1..Len(dd) : dd[i].name = name

IndexOf(dd, name) == CHOOSE i \in 1..Len(dd) : dd[i].name = name

\* Variant of the classifier without the test for a blank line.
is_data_line_without_blank_check(line) ==
    ~(startswith(line, <<"#">>) \/ startswith(line, <<"/", "/">>))

is_data_line(line) ==
    ~(startswith(line, <<"#">>) \/ startswith(line, <<"/", "/">>)
      \/ isspace(line))

_remove_newline(line) ==
    IF Len(line) = 0
    THEN Raise("IndexError", line)
    ELSE LET n_line == line[Len(line)]
         IN IF HasNewline(n_line)
            THEN Return([line EXCEPT ![Len(line)] = rstrip_newline(n_line)])
            ELSE Return(line)

\* Variant of the GF handler that joins a repeated key's values without the
\* separating space.
gf_joins_without_space(line, md) ==
    LET l == split_sp(line, 2)
    IN IF Len(l) < 3
       THEN Raise("IndexError", md)
       ELSE LET data == rstrip_newline(l[3])
            IN IF l[2] \in DOMAIN md
               THEN Return(DictSet(md, l[2], md[l[2]] \o data))
               ELSE Return(DictSet(md, l[2], data))

_parse_stockholm_line_gf(line, md) ==
    LET r == _remove_newline(split_sp(line, 2))
        l == r.ret
    IN IF r.exc # "none" \/ Len(l) < 3
       THEN Raise("IndexError", md)
       ELSE LET gf_feature == l[2]
                gf_feature_data == l[3]
            IN IF gf_feature \in DOMAIN md
               THEN Return(DictSet(md, gf_feature,
                                   md[gf_feature] \o <<" ">> \o gf_feature_data))
               ELSE Return(DictSet(md, gf_feature, gf_feature_data))

\* Variant of the GS handler that ignores a line naming an unknown label.
gs_drops_unknown(line, dd) ==
    LET l == split_sp(line, 3)
    IN IF Len(l) < 3
       THEN Raise("IndexError", dd)
       ELSE IF HasKey(dd, l[2])
            THEN LET i == IndexOf(dd, l[2])
                 IN IF DOMAIN dd[i].metadata = {}
                    THEN IF Len(l) < 4
                         THEN Raise("IndexError", dd)
                         ELSE Return([dd EXCEPT ![i].metadata =
                                  DictSet(@, l[3], rstrip_newline(l[4]))])
                    ELSE Return(dd)
            ELSE Return(dd)

\* Variant of the GS handler that writes whether or not the record's
\* metadata is empty.
gs_writes_always(line, dd) ==
    LET l == split_sp(line, 3)
    IN IF Len(l) < 3
       THEN Raise("IndexError", dd)
       ELSE IF HasKey(dd, l[2])
            THEN IF Len(l) < 4
                 THEN Raise("IndexError", dd)
                 ELSE Return([dd EXCEPT ![IndexOf(dd, l[2])].metadata =
                          DictSet(@, l[3], rstrip_newline(l[4]))])
            ELSE Raise("NonexistentData", dd)

\* Variant of the GS handler that writes the feature to every record whose
\* metadata is empty.
gs_writes_every_record(line, dd) ==
    LET l == split_sp(line, 3)
    IN IF Len(l) < 3
       THEN Raise("IndexError", dd)
       ELSE IF HasKey(dd, l[2])
            THEN IF Len(l) < 4
                 THEN Raise("IndexError", dd)
                 ELSE Return([i \in 1..Len(dd) |->
                          IF DOMAIN dd[i].metadata = {}
                          THEN [dd[i] EXCEPT !.metadata =
                                   DictSet(@, l[3], rstrip_newline(l[4]))]
                          ELSE dd[i]])
            ELSE Raise("NonexistentData", dd)

_parse_stockholm_line_gs(line, dd) ==
    LET r == _remove_newline(split_sp(line, 3))
        l == r.ret
    IN IF r.exc # "none" \/ Len(l) < 3
       THEN Raise("IndexError", dd)
       ELSE LET data_seq_name == l[2]
                gs_feature == l[3]
            IN IF HasKey(dd, data_seq_name)
               THEN LET i == IndexOf(dd, data_seq_name)
                    IN IF DOMAIN dd[i].metadata = {}
                       THEN IF Len(l) < 4
                            THEN Raise("IndexError", dd)
                            ELSE Return([dd EXCEPT ![i].metadata =
                                     DictSet(@, gs_feature, l[4])])
                       ELSE Return(dd)
               ELSE Raise("NonexistentData", dd)

\* Variant of the GR handler without the duplicate check.
gr_overwrites(line, dd) ==
    LET l == split(line)
    IN IF Len(l) < 3
       THEN Raise("IndexError", dd)
       ELSE IF HasKey(dd, l[2])
            THEN IF Len(l) < 4
                 THEN Raise("IndexError", dd)
                 ELSE Return([dd EXCEPT ![IndexOf(dd, l[2])].pos_metadata =
                          DictSet(@, l[3], list(l[4]))])
            ELSE Raise("NonexistentData", dd)

_parse_stockholm_line_gr(line, dd) ==
    LET r == _remove_newline(split(line))
        l == r.ret
    IN IF r.exc # "none" \/ Len(l) < 3
       THEN Raise("IndexError", dd)
       ELSE LET data_seq_name == l[2]
                gr_feature == l[3]
            IN IF HasKey(dd, data_seq_name)
               THEN LET i == IndexOf(dd, data_seq_name)
                    IN IF gr_feature \in DOMAIN dd[i].pos_metadata
                       THEN Raise("DuplicateGR", dd)
                       ELSE IF Len(l) < 4
                            THEN Raise("IndexError", dd)
                            ELSE Return([dd EXCEPT ![i].pos_metadata =
                                     DictSet(@, gr_feature, list(l[4]))])
               ELSE Raise("NonexistentData", dd)

\* Variant of the GC handler without the duplicate check.
gc_overwrites(line, pmd) ==
    LET l == split(line)
    IN IF Len(l) < 3
       THEN Raise("IndexError", pmd)
       ELSE Return(DictSet(pmd, l[2], list(l[3])))

_parse_stockholm_line_gc(line, pmd) ==
    LET r == _remove_newline(split(line))
        l == r.ret
    IN IF r.exc # "none" \/ Len(l) < 2
       THEN Raise("IndexError", pmd)
       ELSE LET gc_feature == l[2]
            IN IF gc_feature \in DOMAIN pmd
               THEN Raise("DuplicateGC", pmd)
               ELSE IF Len(l) < 3
                    THEN Raise("IndexError", pmd)
                    ELSE Return(DictSet(pmd, gc_feature, list(l[3])))

\* Variant of the data handler that puts a new record first.
data_prepends(line, dd) ==
    LET l == split(line)
    IN IF Len(l) < 1
       THEN Raise("IndexError", dd)
       ELSE IF ~HasKey(dd, l[1])
            THEN IF Len(l) < 2
                 THEN Raise("IndexError", dd)
                 ELSE Return(<<SeqData(l[1], l[2], EmptyDict, EmptyDict)>>
                             \o dd)
            ELSE Raise("MultipleDataLines", dd)

\* Variant of the data handler that stores the record under the wrong field.
data_keyed_by_sequence(line, dd) ==
    LET l == split(line)
    IN IF Len(l) < 2
       THEN Raise("IndexError", dd)
       ELSE IF ~HasKey(dd, l[2])
            THEN Return(Append(dd, SeqData(l[2], l[1], EmptyDict, EmptyDict)))
            ELSE Raise("MultipleDataLines", dd)

_parse_stockholm_line_data(line, dd) ==
    LET l == split(line)
    IN IF Len(l) < 1
       THEN Raise("IndexError", dd)
       ELSE LET data_seq_name == l[1]
            IN IF ~HasKey(dd, data_seq_name)
               THEN IF Len(l) < 2
                    THEN Raise("IndexError", dd)
                    ELSE Return(Append(dd, SeqData(data_seq_name, l[2],
                                                   EmptyDict, EmptyDict)))
               ELSE Raise("MultipleDataLines", dd)

\* ------------------------------------------------------------ the sniffer

\* "# STOCKHOLM 1.0"
Signature ==
    <<"#", " ", "S", "T", "O", "C", "K", "H", "O", "L", "M", " ", "1", ".",
      "0">>

\* s[:n]
Prefix(s, n) == SubSeq(s, 1, IF Len(s) < n THEN Len(s) ELSE n)

\* Variant of the sniffer that looks for the signature on every line.
sniffer_reads_every_line(f, p) ==
    [ret |-> <<\E i \in (p + 1)..Len(f) : Prefix(f[i], 15) = Signature,
               EmptyDict>>,
     pos |-> Len(f)]

\* _stockholm_sniffer on the stream f read up to its p-th line: the pair it
\* returns and the position it leaves the stream at.  next(fh) raises
\* StopIteration when no line is left.
_stockholm_sniffer(f, p) ==
    IF p >= Len(f)
    THEN [ret |-> <<FALSE, EmptyDict>>, pos |-> p]
    ELSE LET line == f[p + 1]
         IN [ret |-> <<Prefix(line, 15) = Signature, EmptyDict>>,
             pos |-> p + 1]

\* ------------------------------------------------------ the collaborators

\* constructor(seq, metadata=..., positional_metadata=...): the sequence
\* value, or a failure when a positional-metadata value does not have one
\* entry per character of the sequence.
constructor(seq, md, pmd) ==
    LET value == [seq |-> seq, metadata |-> md, positional_metadata |-> pmd]
    IN IF \E k \in DOMAIN pmd.d : Len(pmd.d[k]) # Len(seq)
       THEN Raise("CollaboratorError", value)
       ELSE Return(value)

\* TabularMSA(seqs, metadata=..., positional_metadata=..., index=...): the
\* alignment, or a failure when the sequences differ in length or a column
\* metadata value does not have one entry per column.
TabularMSA(sq, md, pmd, index) ==
    LET value == [seqs |-> sq, metadata |-> md, positional_metadata |-> pmd,
                  index |-> index]
    IN IF \/ \E i, j \in 1..Len(sq) : Len(sq[i].seq) # Len(sq[j].seq)
          \/ \E k \in DOMAIN pmd.d : \E i \in 1..Len(sq) :
                 Len(pmd.d[k]) # Len(sq[i].seq)
       THEN Raise("CollaboratorError", value)
       ELSE Return(value)

\* ---------------------------------------------------------------- assembly

\* if not d: d = None
NoneIfEmpty(d) == IF DOMAIN d = {} THEN None ELSE Some(d)

\* Variant of the normalisation that drops a record's metadata whether or
\* not it is empty.
Normalised_drops_metadata(rec) ==
    [rec EXCEPT !.metadata = None, !.pos_metadata = NoneIfEmpty(@)]

\* One iteration of "for key in dna_data.keys()": the record with its empty
\* mappings replaced by None.
Normalised(rec) ==
    [rec EXCEPT !.metadata = NoneIfEmpty(@), !.pos_metadata = NoneIfEmpty(@)]

\* The loop from its i-th key on: dna_data and seqs when it ends, or when the
\* constructor raises.
RECURSIVE AssembleLoop(_, _, _)
AssembleLoop(dd, i, sq) ==
    IF i > Len(dd)
    THEN [exc |-> "none", dd |-> dd, seqs |-> sq]
    ELSE LET rec == Normalised(dd[i])
             dd2 == [dd EXCEPT ![i] = rec]
             c == constructor(rec.seq, rec.metadata, rec.pos_metadata)
         IN IF c.exc # "none"
            THEN [exc |-> c.exc, dd |-> dd2, seqs |-> sq]
            ELSE AssembleLoop(dd2, i + 1, Append(sq, c.ret))

\* Variant of the assembly without the check for an empty list of sequences.
Assembled_without_empty_check(dd, md, pmd, sq) ==
    LET a == AssembleLoop(dd, 1, sq)
        t == TabularMSA(a.seqs, md, NoneIfEmpty(pmd), Keys(a.dd))
        rebound == IF DOMAIN pmd = {} THEN None ELSE pmd
    IN IF a.exc # "none"
       THEN [exc |-> a.exc, dd |-> a.dd, seqs |-> a.seqs, pmd |-> pmd,
             result |-> <<>>]
       ELSE IF t.exc # "none"
       THEN [exc |-> t.exc, dd |-> a.dd, seqs |-> a.seqs, pmd |-> rebound,
             result |-> <<>>]
       ELSE [exc |-> "none", dd |-> a.dd, seqs |-> a.seqs, pmd |-> rebound,
             result |-> <<t.ret>>]

\* The outcome of the assembly, with dna_data and seqs as the loop left them
\* and positional_metadata as the function left it: "if not
\* positional_metadata: positional_metadata = None" rebinds the local once
\* the loop and the check for an empty seqs have passed, before TabularMSA is
\* called.
Assembled(dd, md, pmd, sq) ==
    LET a == AssembleLoop(dd, 1, sq)
        t == TabularMSA(a.seqs, md, NoneIfEmpty(pmd), Keys(a.dd))
        rebound == IF DOMAIN pmd = {} THEN None ELSE pmd
        failed(exc, p) == [exc |-> exc, dd |-> a.dd, seqs |-> a.seqs,
                           pmd |-> p, result |-> <<>>]
    IN IF a.exc # "none" THEN failed(a.exc, pmd)
       ELSE IF a.seqs = <<>> THEN failed("NoData", pmd)
       ELSE IF t.exc # "none" THEN failed(t.exc, rebound)
       ELSE [exc |-> "none", dd |-> a.dd, seqs |-> a.seqs, pmd |-> rebound,
             result |-> <<t.ret>>]

\* ------------------------------------------------------------- the inputs

GF == <<"#", "=", "G", "F">>
GS == <<"#", "=", "G", "S">>
GR == <<"#", "=", "G", "R">>
GC == <<"#", "=", "G", "C">>

RECURSIVE JoinSp(_)
JoinSp(fields) ==
    IF Len(fields) = 0 THEN <<>>
    ELSE IF Len(fields) = 1 THEN fields[1]
    ELSE fields[1] \o <<" ">> \o JoinSp(Tail(fields))

\* A line of the stream: its fields one space apart, then the line break.
Line(fields) == JoinSp(fields) \o <<"\n">>

DataA    == Line(<< <<"a">>, <<"A", "C">> >>)
DataB    == Line(<< <<"b">>, <<"G", "A">> >>)
DataA2   == Line(<< <<"a">>, <<"G", "A">> >>)
DataOnlyLabel == Line(<< <<"c">> >>)
DataLong == Line(<< <<"c">>, <<"A", "C", "G">> >>)

\* A data line whose fields a vertical tab separates.
DataVT   == <<"a", VerticalTab, "A", "C", "\n">>
GF_Kx    == Line(<< GF, <<"K">>, <<"x">> >>)
GF_Kyz   == Line(<< GF, <<"K">>, <<"y">>, <<"z">> >>)
GS_aKx   == Line(<< GS, <<"a">>, <<"K">>, <<"x">> >>)
GS_aLy   == Line(<< GS, <<"a">>, <<"L">>, <<"y">> >>)
GS_bKx   == Line(<< GS, <<"b">>, <<"K">>, <<"x">> >>)
GR_aKxy  == Line(<< GR, <<"a">>, <<"K">>, <<"x", "y">> >>)
GR_bKxy  == Line(<< GR, <<"b">>, <<"K">>, <<"x", "y">> >>)
GC_Kxy   == Line(<< GC, <<"K">>, <<"x", "y">> >>)
GC_Kyx   == Line(<< GC, <<"K">>, <<"y", "x">> >>)
GR_cLxyz == Line(<< GR, <<"c">>, <<"L">>, <<"x", "y", "z">> >>)
GC_Lxyz  == Line(<< GC, <<"L">>, <<"x", "y", "z">> >>)

\* Markup lines with too few fields: "#=GF K\n", "#=GF K \n" (only a space
\* after the key), "#=GS a K\n", "#=GR a K\n" and "#=GC K\n".
GF_K     == Line(<< GF, <<"K">> >>)
GF_Ksp   == Line(<< GF, <<"K">>, <<>> >>)
GS_aK    == Line(<< GS, <<"a">>, <<"K">> >>)
GR_aK    == Line(<< GR, <<"a">>, <<"K">> >>)
GC_K     == Line(<< GC, <<"K">> >>)
Terminator == <<"/", "/", "\n">>

\* First lines for the sniffer: the signature line, the signature without
\* line break, the signature followed by more text, the signature cut after
\* 14 characters, another version, an indented signature and an empty line.
SigLine     == Signature \o <<"\n">>
SigBare     == Signature
SigMore     == Signature \o <<" ", "x", "\n">>
SigShort    == SubSeq(Signature, 1, 14) \o <<"\n">>
SigOther    == [Signature EXCEPT ![13] = "2"] \o <<"\n">>
SigIndented == <<" ">> \o Signature \o <<"\n">>
BlankLine   == <<"\n">>

\* Every stream of at most MaxLines lines drawn from a pool of lines.
Streams(pool) == UNION {[1..n -> pool] : n \in 0..MaxLines}

\* Two labels and lines of each markup kind that refer to them.
CorePool == {DataA, DataB, GF_Kx, GS_aKx, GR_aKxy, GR_bKxy, GC_Kxy,
             Terminator}

\* A repeated label and a data line without sequence, with one line of each
\* markup kind.
DataPool == {DataA, DataA2, DataOnlyLabel, GF_Kx, GS_aKx, GR_aKxy, GC_Kxy}

\* One label and, of each markup kind, lines that repeat a feature.
MetaPool == {DataA, GF_Kx, GF_Kyz, GS_aKx, GS_aLy, GR_aKxy, GC_Kxy, GC_Kyx}

\* The streams on which the reader is invoked twice.
TwicePool == {DataA, DataB, DataLong, GF_Kx, GS_aKx, GR_bKxy, GC_Kxy,
              Terminator}

\* One label, a data line without sequence and markup lines of each kind
\* with too few fields.
ShortPool == {DataA, DataOnlyLabel, GF_Kx, GF_K, GF_Ksp, GS_aK, GR_aK, GC_K}

\* Sequences of two and of three columns, with GR and GC lines of two and
\* of three characters.
ColumnPool == {DataA, DataLong, GF_Kx, GS_aKx, GR_aKxy, GR_cLxyz, GC_Kxy,
               GC_Lxyz}

\* A repeated label and a data line without sequence, with a GS line that
\* names a label no data line carries and a GR and a GC line to repeat.
OrderPool == {DataA, DataA2, DataVT, DataOnlyLabel, GF_Kx, GS_bKx, GR_aKxy,
              GC_Kxy}

\* The lines of the streams the sniffer is given.
SniffPool == {SigLine, SigBare, SigMore, SigShort, SigOther, SigIndented,
              BlankLine, DataA}

\* The streams of a pool in which only the last line may lack its line
\* break.
Broken(pool) ==
    {f \in Streams(pool) :
        \A i \in 1..(Len(f) - 1) : f[i][Len(f[i])] = "\n"}

\* The characters of the lines the classifier is given, a whitespace
\* character other than the space and the line break among them; every str
\* of at most n of them; and those a "for line in fh" yields: at least one
\* character, and no line break but at the end.
ClassifyAlphabet == {"#", "/", " ", "\n", "a", VerticalTab}

Strs(n) == UNION {[1..k -> ClassifyAlphabet] : k \in 0..n}

Lines(n) ==
    {s \in Strs(n) : Len(s) >= 1 /\ \A i \in 1..(Len(s) - 1) : s[i] # "\n"}

\* ------------------------------------------------------------- the driver

NoOutcome == [pc |-> "none", err |-> "none", result |-> <<>>]

\* A fresh call of _stockholm_to_tabular_msa on a stream positioned at p.
Call(p) ==
    /\ pos = p
    /\ start = p
    /\ pc = "ScanningData"
    /\ dna_data = <<>>
    /\ metadata = EmptyDict
    /\ positional_metadata = EmptyDict
    /\ seqs = <<>>
    /\ result = <<>>
    /\ err = "none"

InitFrom(pool) ==
    /\ fh \in Streams(pool)
    /\ Call(0)
    /\ calls = 1
    /\ prev = NoOutcome

Init == InitFrom(CorePool)

\* One iteration of the first "for line in fh".
DataStep ==
    /\ pc = "ScanningData"
    /\ pos < Len(fh)
    /\ pos' = pos + 1
    /\ LET line == fh[pos + 1]
       IN IF is_data_line(line)
          THEN LET r == _parse_stockholm_line_data(line, dna_data)
               IN /\ dna_data' = r.ret
                  /\ err' = r.exc
                  /\ pc' = IF r.exc = "none" THEN pc ELSE "Error"
          ELSE UNCHANGED <<dna_data, err, pc>>
    /\ UNCHANGED <<fh, metadata, positional_metadata, seqs, result, calls,
                   start, prev>>

\* The first loop ends and fh.seek(0) rewinds the stream.
Rewind ==
    /\ pc = "ScanningData"
    /\ pos = Len(fh)
    /\ pos' = 0
    /\ pc' = "ScanningMarkup"
    /\ UNCHANGED <<fh, dna_data, metadata, positional_metadata, seqs, result,
                   err, calls, start, prev>>

\* Variant of the dispatch that hands a markup line to its handler in the
\* first loop as well.
AtMarkup_any_phase(marker) ==
    /\ pc \in {"ScanningData", "ScanningMarkup"}
    /\ pos < Len(fh)
    /\ startswith(fh[pos + 1], marker)

\* Variant of the dispatch that goes on with the next line after a handler
\* has raised.
AtMarkup_after_error(marker) ==
    /\ pc \in {"ScanningMarkup", "Error"}
    /\ pos < Len(fh)
    /\ startswith(fh[pos + 1], marker)

\* The line the second loop reads next.
AtMarkup(marker) ==
    /\ pc = "ScanningMarkup"
    /\ pos < Len(fh)
    /\ startswith(fh[pos + 1], marker)

MarkupGF ==
    /\ AtMarkup(GF)
    /\ pos' = pos + 1
    /\ LET r == _parse_stockholm_line_gf(fh[pos + 1], metadata)
       IN /\ metadata' = r.ret
          /\ err' = r.exc
          /\ pc' = IF r.exc = "none" THEN pc ELSE "Error"
    /\ UNCHANGED <<fh, dna_data, positional_metadata, seqs, result, calls,
                   start, prev>>

MarkupGS ==
    /\ AtMarkup(GS)
    /\ pos' = pos + 1
    /\ LET r == _parse_stockholm_line_gs(fh[pos + 1], dna_data)
       IN /\ dna_data' = r.ret
          /\ err' = r.exc
          /\ pc' = IF r.exc = "none" THEN pc ELSE "Error"
    /\ UNCHANGED <<fh, metadata, positional_metadata, seqs, result, calls,
                   start, prev>>

MarkupGR ==
    /\ AtMarkup(GR)
    /\ pos' = pos + 1
    /\ LET r == _parse_stockholm_line_gr(fh[pos + 1], dna_data)
       IN /\ dna_data' = r.ret
          /\ err' = r.exc
          /\ pc' = IF r.exc = "none" THEN pc ELSE "Error"
    /\ UNCHANGED <<fh, metadata, positional_metadata, seqs, result, calls,
                   start, prev>>

MarkupGC ==
    /\ AtMarkup(GC)
    /\ pos' = pos + 1
    /\ LET r == _parse_stockholm_line_gc(fh[pos + 1], positional_metadata)
       IN /\ positional_metadata' = r.ret
          /\ err' = r.exc
          /\ pc' = IF r.exc = "none" THEN pc ELSE "Error"
    /\ UNCHANGED <<fh, dna_data, metadata, seqs, result, calls, start, prev>>

\* A line of the second loop that matches none of the four prefixes.
MarkupSkip ==
    /\ pc = "ScanningMarkup"
    /\ pos < Len(fh)
    /\ \A marker \in {GF, GS, GR, GC} : ~startswith(fh[pos + 1], marker)
    /\ pos' = pos + 1
    /\ UNCHANGED <<fh, pc, dna_data, metadata, positional_metadata, seqs,
                   result, err, calls, start, prev>>

\* The second loop ends.
MarkupDone ==
    /\ pc = "ScanningMarkup"
    /\ pos = Len(fh)
    /\ pc' = "Assembling"
    /\ UNCHANGED <<fh, pos, dna_data, metadata, positional_metadata, seqs,
                   result, err, calls, start, prev>>

\* The loop over dna_data.keys(), the emptiness checks and the construction
\* of the alignment.  An empty positional_metadata is rebound to None when
\* the function gets as far as the call of TabularMSA.
Assemble ==
    /\ pc = "Assembling"
    /\ LET a == Assembled(dna_data, metadata, positional_metadata, seqs)
       IN /\ dna_data' = a.dd
          /\ seqs' = a.seqs
          /\ err' = a.exc
          /\ pc' = IF a.exc = "none" THEN "Done" ELSE "Error"
          /\ result' = a.result
          /\ positional_metadata' = a.pmd
    /\ UNCHANGED <<fh, pos, metadata, calls, start, prev>>

\* The caller invokes the reader once more on the same stream, either as the
\* previous call left it or after rewinding it.
ParseAgain ==
    /\ pc \in {"Done", "Error"}
    /\ calls < MaxCalls
    /\ calls' = calls + 1
    /\ prev' = [pc |-> pc, err |-> err, result |-> result]
    /\ \E rewind \in BOOLEAN :
          /\ pos' = IF rewind THEN 0 ELSE pos
          /\ start' = pos'
    /\ pc' = "ScanningData"
    /\ dna_data' = <<>>
    /\ metadata' = EmptyDict
    /\ positional_metadata' = EmptyDict
    /\ seqs' = <<>>
    /\ result' = <<>>
    /\ err' = "none"
    /\ UNCHANGED fh

Next ==
    \/ DataStep
    \/ Rewind
    \/ MarkupGF
    \/ MarkupGS
    \/ MarkupGR
    \/ MarkupGC
    \/ MarkupSkip
    \/ MarkupDone
    \/ Assemble

Spec == Init /\ [][Next]_vars

InitData == InitFrom(DataPool)

SpecData == InitData /\ [][Next]_vars

InitMeta == InitFrom(MetaPool)

SpecMeta == InitMeta /\ [][Next]_vars

InitShort == InitFrom(ShortPool)

SpecShort == InitShort /\ [][Next]_vars

InitColumn == InitFrom(ColumnPool)

SpecColumn == InitColumn /\ [][Next]_vars

InitOrder == InitFrom(OrderPool)

SpecOrder == InitOrder /\ [][Next]_vars

InitTwice == InitFrom(TwicePool)

\* The sniffer is called on a stream positioned at its start.
InitSniff ==
    /\ fh \in Broken(SniffPool)
    /\ pos = 0
    /\ start = 0
    /\ pc = "Sniffing"
    /\ dna_data = <<>>
    /\ metadata = EmptyDict
    /\ positional_metadata = EmptyDict
    /\ seqs = <<>>
    /\ result = <<>>
    /\ err = "none"
    /\ calls = 1
    /\ prev = NoOutcome

\* The call of _stockholm_sniffer(fh).
Sniff ==
    /\ pc = "Sniffing"
    /\ LET r == _stockholm_sniffer(fh, pos)
       IN /\ result' = r.ret
          /\ pos' = r.pos
    /\ pc' = "Sniffed"
    /\ UNCHANGED <<fh, dna_data, metadata, positional_metadata, seqs, err,
                   calls, start, prev>>

NextSniff == Sniff

\* The classifier is called on one line of a stream, held as the only
\* element of fh.
InitClassify ==
    /\ fh \in {<<line>> : line \in Lines(MaxLen)}
    /\ pos = 0
    /\ start = 0
    /\ pc = "Classifying"
    /\ dna_data = <<>>
    /\ metadata = EmptyDict
    /\ positional_metadata = EmptyDict
    /\ seqs = <<>>
    /\ result = <<>>
    /\ err = "none"
    /\ calls = 1
    /\ prev = NoOutcome

\* The call of is_data_line(line).
Classify ==
    /\ pc = "Classifying"
    /\ result' = <<is_data_line(fh[1])>>
    /\ pos' = 1
    /\ pc' = "Classified"
    /\ UNCHANGED <<fh, dna_data, metadata, positional_metadata, seqs, err,
                   calls, start, prev>>

NextClassify == Classify

SpecClassify == InitClassify /\ [][NextClassify]_vars

SpecSniff == InitSniff /\ [][NextSniff]_vars

NextTwice == Next \/ ParseAgain

SpecTwice == InitTwice /\ [][NextTwice]_vars

\* ------------------------------------------------- reading of the input

Terminal == pc \in {"Done", "Error"}

Min(S) == CHOOSE x \in S : \A y \in S : x <= y

\* A data line as the format defines it: not blank, not a "#" line and not
\* the terminator.
IsData(line) ==
    /\ Len(split(line)) >= 1
    /\ line[1] # "#"
    /\ ~(Len(line) >= 2 /\ line[1] = "/" /\ line[2] = "/")

IsGF(line) == startswith(line, GF)
IsGS(line) == startswith(line, GS)
IsGR(line) == startswith(line, GR)
IsGC(line) == startswith(line, GC)
IsMarkup(line) == IsGF(line) \/ IsGS(line) \/ IsGR(line) \/ IsGC(line)

\* The fields of a line cut at its first n single spaces, without the line
\* break.
FieldsSp(line, n) ==
    LET l == split_sp(line, n) IN [l EXCEPT ![Len(l)] = rstrip_newline(@)]

DataIdx(f) == {i \in 1..Len(f) : IsData(f[i])}
DataLabel(line) == split(line)[1]
DataLabelSet(f) == {DataLabel(f[i]) : i \in DataIdx(f)}

\* The labels of the data lines, in file order.
DataLabelSeq(f) ==
    LET d == SelectSeq(f, IsData) IN [i \in 1..Len(d) |-> DataLabel(d[i])]

\* A sequence without the later occurrences of its elements.
RECURSIVE FirstSeenFrom(_, _)
FirstSeenFrom(labels, acc) ==
    IF labels = <<>> THEN acc
    ELSE FirstSeenFrom(Tail(labels),
                       IF \E i \in 1..Len(acc) : acc[i] = Head(labels)
                       THEN acc ELSE Append(acc, Head(labels)))

FirstSeen(labels) == FirstSeenFrom(labels, <<>>)

\* The first data line that carries a label.
FirstDataLine(f, label) ==
    f[Min({i \in DataIdx(f) : DataLabel(f[i]) = label})]

\* A GS or GR line that has a sequence-label field, and that field.
HasRef(line) ==
    \/ IsGS(line) /\ Len(FieldsSp(line, 3)) >= 2
    \/ IsGR(line) /\ Len(split(line)) >= 2

RefLabel(line) == IF IsGS(line) THEN FieldsSp(line, 3)[2] ELSE split(line)[2]

\* Some GS or GR line names a label that only a later data line carries.
ForwardRef(f) ==
    \E i \in 1..Len(f) :
        /\ HasRef(f[i])
        /\ \A k \in DataIdx(f) : k < i => DataLabel(f[k]) # RefLabel(f[i])
        /\ \E k \in DataIdx(f) : k > i /\ DataLabel(f[k]) = RefLabel(f[i])

\* Some GS or GR line names a label that no data line carries.
Undeclared(f) ==
    \E i \in 1..Len(f) : HasRef(f[i]) /\ RefLabel(f[i]) \notin DataLabelSet(f)

\* ------------------------------------------------------------ the claims

\* C1: when the parse succeeds, the index of the alignment is the labels of
\* the data lines in order of first appearance, and sequence i is the
\* sequence of the data line labelled index[i]; the formula reads the data
\* lines only, so the place of the markup lines among them does not matter.
C1_OrderIsFirstAppearance ==
    pc = "Done" =>
        LET r == result[1]
            labels == FirstSeen(DataLabelSeq(fh))
        IN /\ r.index = labels
           /\ Len(r.seqs) = Len(labels)
           /\ \A i \in 1..Len(labels) :
                 /\ labels[i] \in DataLabelSet(fh)
                 /\ r.seqs[i].seq = split(FirstDataLine(fh, labels[i]))[2]

\* A successful parse of a stream with markup before, between and around two
\* data lines of different labels.
C1_Witness ==
    /\ pc = "Done"
    /\ Len(result[1].index) >= 2
    /\ \E h, i, j, k \in 1..Len(fh) :
          /\ h < i /\ i < j /\ j < k
          /\ IsMarkup(fh[h]) /\ IsData(fh[i])
          /\ IsMarkup(fh[j]) /\ IsData(fh[k])

\* C2 as stated: an input with a GS or GR line whose label is carried only
\* by a later data line ends with the nonexistent-data error.
C2_ForwardRefFails ==
    (Terminal /\ ForwardRef(fh)) => (pc = "Error" /\ err = "NonexistentData")

\* C2 amended: the nonexistent-data error is raised only at a GS or GR line
\* whose label no data line of the whole file carries; a label carried by a
\* later data line is known when the markup line is handled.
C2_NonexistentOnlyIfNowhere ==
    (pc = "Error" /\ err = "NonexistentData") =>
        /\ pos >= 1
        /\ HasRef(fh[pos])
        /\ RefLabel(fh[pos]) \notin DataLabelSet(fh)

\* A stream with a forward reference that parses.
C2_Witness == pc = "Done" /\ ForwardRef(fh)

\* C3: an input with a GS or GR line whose label no data line carries never
\* yields an alignment and ends in an error, and no record ever exists for a
\* label that is on no data line.
C3_UndeclaredFails ==
    /\ pc \in {"Assembling", "Done"} => ~Undeclared(fh)
    /\ pc # "Done" => result = <<>>
    /\ \A i \in 1..Len(dna_data) : dna_data[i].name \in DataLabelSet(fh)

\* The markup pass has stopped at a line that names an undeclared label,
\* with the records of the data lines in place.
C3_Witness ==
    /\ pc = "Error"
    /\ err = "NonexistentData"
    /\ Len(dna_data) >= 1
    /\ Undeclared(fh)

\* The data lines whose label an earlier data line carries.
RepeatData(f) ==
    {j \in DataIdx(f) :
        \E i \in DataIdx(f) : i < j /\ DataLabel(f[i]) = DataLabel(f[j])}

\* A data line before line j has no sequence field.
ShortDataBefore(f, j) ==
    \E k \in DataIdx(f) : k < j /\ Len(split(f[k])) < 2

\* C4: an input with a label on two or more data lines ends with the
\* multiple-data-lines error and without alignment, and every record keeps
\* the sequence of the first data line of its label.
C4_RepeatedLabelError ==
    /\ (Terminal /\ RepeatData(fh) # {}) =>
          (pc = "Error" /\ err = "MultipleDataLines" /\ result = <<>>)
    /\ \A i \in 1..Len(dna_data) :
          /\ dna_data[i].name \in DataLabelSet(fh)
          /\ dna_data[i].seq = split(FirstDataLine(fh, dna_data[i].name))[2]

\* The same for the inputs in which every data line before the first
\* repeated label has its sequence field.
C4_WithoutShortLine ==
    /\ (Terminal /\ RepeatData(fh) # {}
           /\ ~ShortDataBefore(fh, Min(RepeatData(fh)))) =>
          (pc = "Error" /\ err = "MultipleDataLines" /\ result = <<>>)
    /\ \A i \in 1..Len(dna_data) :
          /\ dna_data[i].name \in DataLabelSet(fh)
          /\ dna_data[i].seq = split(FirstDataLine(fh, dna_data[i].name))[2]

\* The data pass has stopped at the second data line of a label whose two
\* lines carry different sequences.
C4_RepeatReached ==
    /\ pc = "Error"
    /\ err = "MultipleDataLines"
    /\ Len(dna_data) >= 1
    /\ \E i \in DataIdx(fh) :
          /\ i < pos
          /\ DataLabel(fh[i]) = DataLabel(fh[pos])
          /\ split(fh[i])[2] # split(fh[pos])[2]

\* The GC lines that have a feature field, and those whose feature an
\* earlier GC line carries.
GCIdx(f) == {i \in 1..Len(f) : IsGC(f[i]) /\ Len(split(f[i])) >= 2}
GCFeature(line) == split(line)[2]
RepeatGC(f) ==
    {j \in GCIdx(f) :
        \E i \in GCIdx(f) : i < j /\ GCFeature(f[i]) = GCFeature(f[j])}

\* No markup line of a stream without data lines can fail.
MarkupClean(f) ==
    /\ \A i \in 1..Len(f) :
          /\ ~IsGS(f[i])
          /\ ~IsGR(f[i])
          /\ IsGF(f[i]) => Len(split_sp(f[i], 2)) >= 3
          /\ IsGC(f[i]) => Len(split(f[i])) >= 3
    /\ RepeatGC(f) = {}

\* C5 as stated: an input without data lines ends with the no-data error,
\* whatever its markup lines are.
C5_NoDataLinesError ==
    (Terminal /\ DataIdx(fh) = {}) => (pc = "Error" /\ err = "NoData")

\* C5 amended: an input without data lines never yields an alignment; it
\* ends with the no-data error exactly when no markup line fails first, that
\* is when it has no GS and no GR line, no repeated GC feature and no markup
\* line with too few fields.
C5_NoDataLinesFails ==
    DataIdx(fh) = {} =>
        /\ pc # "Done"
        /\ result = <<>>
        /\ Terminal => (err = "NoData" <=> MarkupClean(fh))

\* The assembly has raised the no-data error on a stream that holds markup
\* lines and no data line.
C5_Witness ==
    /\ pc = "Error"
    /\ err = "NoData"
    /\ DataIdx(fh) = {}
    /\ \E i \in 1..Len(fh) : IsGF(fh[i]) \/ IsGC(fh[i])

\* C6 as stated: an input with two GC lines of the same feature ends with
\* the duplicate-GC error.
C6_RepeatedGCError ==
    (Terminal /\ RepeatGC(fh) # {}) => (pc = "Error" /\ err = "DuplicateGC")

\* C6 amended: such an input never yields an alignment; the parse fails with
\* the duplicate-GC error at the first GC line that repeats a feature, unless
\* it has failed before, in the data pass or at an earlier markup line; every
\* entry of the column metadata, and of the alignment's once the assembly
\* has run, is the data of the first GC line of its feature.
C6_RepeatedGCFails ==
    /\ (pc \in {"Assembling", "Done"}) => RepeatGC(fh) = {}
    /\ (pc = "Error" /\ RepeatGC(fh) # {}) =>
          /\ result = <<>>
          /\ pos >= 1
          /\ \/ IsData(fh[pos])
             \/ ~IsData(fh[pos]) /\ pos < Min(RepeatGC(fh))
             \/ pos = Min(RepeatGC(fh)) /\ err = "DuplicateGC"
    /\ LET cm == IF pc = "Done" THEN result[1].positional_metadata.d
                  ELSE IF pc = "Error" /\ err = "CollaboratorError"
                  THEN EmptyDict
                  ELSE positional_metadata
       IN \A k \in DOMAIN cm :
              /\ \E i \in GCIdx(fh) : GCFeature(fh[i]) = k
              /\ LET first == Min({i \in GCIdx(fh) : GCFeature(fh[i]) = k})
                 IN /\ Len(split(fh[first])) >= 3
                    /\ cm[k] = list(split(fh[first])[3])

\* The markup pass has stopped at a GC line that repeats a feature with
\* other data, and the entry still holds the data of the first line.
C6_Witness ==
    /\ pc = "Error"
    /\ err = "DuplicateGC"
    /\ \E i \in GCIdx(fh) :
          /\ i < pos
          /\ GCFeature(fh[i]) = GCFeature(fh[pos])
          /\ split(fh[i])[3] # split(fh[pos])[3]
          /\ positional_metadata[GCFeature(fh[i])] = list(split(fh[i])[3])

\* The GR lines among the first n lines that have a label and a feature
\* field, and those whose (label, feature) pair an earlier GR line carries.
GRIdx(f, n) == {i \in 1..n : IsGR(f[i]) /\ Len(split(f[i])) >= 3}
GRPair(line) == <<split(line)[2], split(line)[3]>>
RepeatGR(f, n) ==
    {j \in GRIdx(f, n) :
        \E i \in GRIdx(f, n) : i < j /\ GRPair(f[i]) = GRPair(f[j])}

\* The positional metadata the GR lines among the first n lines give a label.
ExpectedGR(f, n, name) ==
    LET mine == {i \in GRIdx(f, n) : split(f[i])[2] = name}
    IN [k \in {split(f[i])[3] : i \in mine} |->
          list(split(f[CHOOSE i \in mine : split(f[i])[3] = k])[4])]

\* C7: the duplicate-GR error is raised at a GR line exactly when an earlier
\* GR line carries the same (label, feature) pair: it is raised only at such
\* a line, and the markup pass never gets past one; while the pass runs,
\* each record holds the data of the GR lines read so far that name its
\* label, so one feature under two labels is stored on both records.
C7_DuplicateGRExactly ==
    /\ (pc = "Error" /\ err = "DuplicateGR") =>
          (pos >= 1 /\ pos \in RepeatGR(fh, pos))
    /\ (pc = "Error" /\ pos >= 1 /\ pos \in RepeatGR(fh, pos)) =>
          err = "DuplicateGR"
    /\ pc = "ScanningMarkup" => RepeatGR(fh, pos) = {}
    /\ pc \in {"Assembling", "Done"} => RepeatGR(fh, Len(fh)) = {}
    /\ pc \in {"ScanningMarkup", "Assembling"} =>
          \A i \in 1..Len(dna_data) :
              dna_data[i].pos_metadata = ExpectedGR(fh, pos, dna_data[i].name)

\* The markup pass has stopped with the duplicate-GR error at a GR line
\* whose (label, feature) pair an earlier GR line carries.
C7_Witness ==
    /\ pc = "Error"
    /\ err = "DuplicateGR"
    /\ pos \in RepeatGR(fh, pos)
    /\ Len(dna_data) >= 1

\* Two records hold the same GR feature, each with its own data.
C7_SameFeatureTwoLabels ==
    /\ pc = "Assembling"
    /\ \E i, j \in 1..Len(dna_data) :
          /\ i # j
          /\ \E k \in DOMAIN dna_data[i].pos_metadata :
                k \in DOMAIN dna_data[j].pos_metadata

\* The GF lines among the first n lines, and the alignment metadata they
\* give: per key, the values in line order joined by one space.
GFIdx(f, n) == {i \in 1..n : IsGF(f[i])}
GFKey(line) == FieldsSp(line, 2)[2]
GFValue(line) == FieldsSp(line, 2)[3]

RECURSIVE GFJoined(_, _, _)
GFJoined(f, n, key) ==
    IF n = 0 THEN <<>>
    ELSE IF IsGF(f[n]) /\ GFKey(f[n]) = key
         THEN IF \E i \in GFIdx(f, n - 1) : GFKey(f[i]) = key
              THEN GFJoined(f, n - 1, key) \o <<" ">> \o GFValue(f[n])
              ELSE GFValue(f[n])
         ELSE GFJoined(f, n - 1, key)

ExpectedGF(f, n) ==
    [k \in {GFKey(f[i]) : i \in GFIdx(f, n)} |-> GFJoined(f, n, k)]

\* C8: during and after the markup pass the alignment metadata maps every
\* key of the GF lines read so far to their values, in line order, joined by
\* exactly one space, and the alignment carries that mapping.
C8_GFValuesJoined ==
    /\ pc \in {"ScanningMarkup", "Assembling", "Done"} =>
          metadata = ExpectedGF(fh, pos)
    /\ pc = "Done" => result[1].metadata = ExpectedGF(fh, Len(fh))

\* An alignment whose metadata joins the values of two GF lines of one key,
\* "y z" before "x".
C8_Witness ==
    /\ pc = "Done"
    /\ <<"K">> \in DOMAIN result[1].metadata
    /\ result[1].metadata[<<"K">>] = <<"y", " ", "z", " ", "x">>

\* The GS lines among the first n lines that have a label and a feature
\* field, and the metadata they give a label: the feature and value of the
\* first of them that names it.
GSIdx(f, n) == {i \in 1..n : IsGS(f[i]) /\ Len(FieldsSp(f[i], 3)) >= 3}

ExpectedGS(f, n, name) ==
    LET mine == {i \in GSIdx(f, n) : FieldsSp(f[i], 3)[2] = name}
    IN IF mine = {} THEN EmptyDict
       ELSE LET l == FieldsSp(f[Min(mine)], 3)
            IN [k \in {l[3]} |-> l[4]]

\* C9: during and after the markup pass a record's metadata is the feature
\* and value of the first GS line read so far that names its label, or is
\* empty when there is none, and the sequence of the alignment carries it;
\* the parse never fails at a GS line whose label an earlier GS line names.
C9_FirstGSOnly ==
    /\ pc \in {"ScanningMarkup", "Assembling"} =>
          \A i \in 1..Len(dna_data) :
              dna_data[i].metadata = ExpectedGS(fh, pos, dna_data[i].name)
    /\ pc = "Done" =>
          \A i \in 1..Len(result[1].seqs) :
              LET expected == ExpectedGS(fh, Len(fh), result[1].index[i])
              IN result[1].seqs[i].metadata =
                    IF DOMAIN expected = {} THEN None ELSE Some(expected)
    /\ (pc = "Error" /\ pos >= 1 /\ err \notin {"NoData", "CollaboratorError"}) =>
          ~(/\ pos \in GSIdx(fh, pos)
            /\ \E i \in GSIdx(fh, pos - 1) :
                  FieldsSp(fh[i], 3)[2] = FieldsSp(fh[pos], 3)[2])

\* An alignment of a stream with two GS lines of different features for one
\* label, whose sequence holds one metadata entry.
C9_Witness ==
    /\ pc = "Done"
    /\ \E i, j \in GSIdx(fh, Len(fh)) :
          /\ i < j
          /\ FieldsSp(fh[i], 3)[2] = FieldsSp(fh[j], 3)[2]
          /\ FieldsSp(fh[i], 3)[3] # FieldsSp(fh[j], 3)[3]
    /\ \E i \in 1..Len(result[1].seqs) :
          Cardinality(DOMAIN result[1].seqs[i].metadata.d) = 1

\* C10: when a call of the reader has yielded an alignment, the next call on
\* the same stream ends the same way with the same alignment.
C10_ReparseIdentical ==
    (calls >= 2 /\ Terminal /\ prev.pc = "Done") =>
        (pc = prev.pc /\ err = prev.err /\ result = prev.result)

\* The errors of the format-error taxonomy that the reader raises: each is a
\* StockholmFormatError with the message of one rule.
FormatErrors ==
    {"MultipleDataLines", "NonexistentData", "DuplicateGC", "DuplicateGR",
     "NoData"}

\* C11: every parse ends either with an alignment or with one error of the
\* format-error taxonomy and without alignment, lines with too few fields
\* included.
C11_OnlyFormatErrors ==
    Terminal =>
        \/ pc = "Done" /\ err = "none" /\ result # <<>>
        \/ pc = "Error" /\ err \in FormatErrors /\ result = <<>>

\* A GF line with fewer than three whitespace-delimited fields.
ShortGF(line) == IsGF(line) /\ Len(split(line)) < 3

\* C12: the step of the markup pass that reads a GF line with fewer than
\* three whitespace-delimited fields ends the parse in an error and leaves
\* the alignment metadata as it was.
C12_ShortGFFails ==
    [][(pc = "ScanningMarkup" /\ pos < Len(fh) /\ ShortGF(fh[pos + 1])) =>
           (pc' = "Error" /\ metadata' = metadata)]_vars

\* C13: the sniffer answers true exactly when the stream has a first line
\* of at least 15 characters whose first 15 are those of the signature; the
\* answer is a function of the first line alone, and the sniffer reads no
\* other line.
C13_SnifferFirstLineOnly ==
    pc = "Sniffed" =>
        /\ result[1] = (/\ Len(fh) >= 1
                        /\ Len(fh[1]) >= 15
                        /\ \A i \in 1..15 : fh[1][i] = Signature[i])
        /\ result[2] = EmptyDict
        /\ pos = IF Len(fh) = 0 THEN 0 ELSE 1

\* The sniffer has answered false on a stream whose first line lacks the
\* signature and whose second line carries it.
C13_Witness ==
    /\ pc = "Sniffed"
    /\ result[1] = FALSE
    /\ Len(fh) >= 2
    /\ fh[2] = SigLine

\* The sniffer has answered true on a stream of several lines.
C13_WitnessTrue ==
    /\ pc = "Sniffed"
    /\ result[1] = TRUE
    /\ Len(fh) >= 2
    /\ fh[2] # fh[1]

\* C14: is_data_line answers true exactly for the lines that are not blank
\* (neither empty nor made of whitespace only) and begin neither with "#"
\* nor with "//", so that every line it accepts has a label field.
C14_DataLineIffNotBlank ==
    pc = "Classified" =>
        /\ result[1] = IsData(fh[1])
        /\ result[1] => Len(split(fh[1])) >= 1

\* The classifier has rejected a line made of two or more whitespace
\* characters, a vertical tab among them.
C14_Witness ==
    /\ pc = "Classified"
    /\ result[1] = FALSE
    /\ Len(fh[1]) >= 2
    /\ \A i \in 1..Len(fh[1]) : IsSpace(fh[1][i])
    /\ \E i \in 1..Len(fh[1]) : fh[1][i] = VerticalTab

\* The classifier has accepted a line that begins with a space or with a
\* single "/", and the line has a label field.
C14_Accepted ==
    /\ pc = "Classified"
    /\ result[1] = TRUE
    /\ fh[1][1] \in {" ", "/"}
    /\ Len(split(fh[1])) >= 1

\* Some GS line, some GR line of a stream names a label.
GSNames(f, label) ==
    \E i \in 1..Len(f) :
        IsGS(f[i]) /\ Len(FieldsSp(f[i], 3)) >= 2 /\ FieldsSp(f[i], 3)[2] = label

GRNames(f, label) ==
    \E i \in 1..Len(f) :
        IsGR(f[i]) /\ Len(split(f[i])) >= 2 /\ split(f[i])[2] = label

\* C15: in an alignment the parse produces, a sequence's metadata is None
\* exactly when no GS line names its label and its positional metadata is
\* None exactly when no GR line names it, the column metadata is None
\* exactly when the file has no GC line, a mapping that is passed is never
\* empty, and the alignment metadata is a mapping, empty exactly when the
\* file has no GF line.
C15_AbsentExactlyWhenUnnamed ==
    pc = "Done" =>
        LET r == result[1]
        IN /\ \A i \in 1..Len(r.seqs) :
                 LET sq == r.seqs[i]
                 IN /\ sq.metadata.isNone <=> ~GSNames(fh, r.index[i])
                    /\ sq.positional_metadata.isNone
                          <=> ~GRNames(fh, r.index[i])
                    /\ sq.metadata.isNone <=> DOMAIN sq.metadata.d = {}
                    /\ sq.positional_metadata.isNone
                          <=> DOMAIN sq.positional_metadata.d = {}
           /\ r.positional_metadata.isNone
                 <=> ~\E i \in 1..Len(fh) : IsGC(fh[i])
           /\ r.positional_metadata.isNone
                 <=> DOMAIN r.positional_metadata.d = {}
           /\ DOMAIN r.metadata = {} <=> ~\E i \in 1..Len(fh) : IsGF(fh[i])
           /\ r.metadata = metadata

\* An alignment of two sequences, one with metadata and one without, that
\* carries column metadata and no alignment metadata.
C15_Witness ==
    /\ pc = "Done"
    /\ \E i, j \in 1..Len(result[1].seqs) :
          /\ result[1].seqs[i].metadata.isNone
          /\ ~result[1].seqs[j].metadata.isNone
    /\ ~result[1].positional_metadata.isNone
    /\ DOMAIN result[1].metadata = {}

\* The phase changes of one call of the reader.
PhaseOrder ==
    {<<"ScanningData", "ScanningData">>, <<"ScanningData", "ScanningMarkup">>,
     <<"ScanningData", "Error">>, <<"ScanningMarkup", "ScanningMarkup">>,
     <<"ScanningMarkup", "Assembling">>, <<"ScanningMarkup", "Error">>,
     <<"Assembling", "Done">>, <<"Assembling", "Error">>}

\* The labels and sequences of the records, in order.
Registry(dd) == [i \in 1..Len(dd) |-> <<dd[i].name, dd[i].seq>>]

\* A step in the order of the phases: it follows the order ScanningData,
\* ScanningMarkup, Assembling, terminal.  A step of the data pass changes
\* neither the alignment metadata nor the column metadata nor any record's
\* metadata, changes the records only at a data line, and leaves the pass
\* only after the last line, rewinding the stream.  A step of the markup
\* pass adds no record, changes no sequence, never raises the data-line
\* parser's error, changes nothing at a data line, and leaves the pass only
\* after the last line.
C16_Step ==
    /\ <<pc, pc'>> \in PhaseOrder
    /\ pc = "ScanningData" =>
          /\ metadata' = metadata /\ metadata = EmptyDict
          /\ positional_metadata' = positional_metadata
          /\ positional_metadata = EmptyDict
          /\ \A i \in 1..Len(dna_data') :
                /\ dna_data'[i].metadata = EmptyDict
                /\ dna_data'[i].pos_metadata = EmptyDict
          /\ pc' = "ScanningMarkup" => (pos = Len(fh) /\ pos' = 0)
          /\ pc' # "ScanningMarkup" =>
                /\ pos < Len(fh) /\ pos' = pos + 1
                /\ ~IsData(fh[pos + 1]) => dna_data' = dna_data
    /\ pc = "ScanningMarkup" =>
          /\ Registry(dna_data') = Registry(dna_data)
          /\ err' # "MultipleDataLines"
          /\ pc' = "Assembling" => (pos = Len(fh) /\ pos' = pos)
          /\ pc' # "Assembling" =>
                /\ pos < Len(fh) /\ pos' = pos + 1
                /\ IsData(fh[pos + 1]) =>
                      /\ dna_data' = dna_data
                      /\ metadata' = metadata
                      /\ positional_metadata' = positional_metadata
                      /\ pc' = pc

\* C16: the reader moves through ScanningData, ScanningMarkup, Assembling
\* and a terminal state in that order and never backwards; no markup handler
\* acts during the data pass, which changes neither the alignment metadata
\* nor the column metadata, and the markup pass never runs the data-line
\* parser.
C16_PhasesInOrder == [][C16_Step]_vars

\* The markup pass has ended on a stream whose first line is a markup line
\* and whose later lines hold a data line: the records, the alignment
\* metadata and the column metadata are in place.
C16_Witness ==
    /\ pc = "Assembling"
    /\ Len(dna_data) >= 1
    /\ metadata # EmptyDict
    /\ positional_metadata # EmptyDict
    /\ IsMarkup(fh[1])
    /\ \E j \in 2..Len(fh) : IsData(fh[j])

\* A step that respects the raising of an error: it does not start in an
\* error state; when it ends in one, the error is recorded and there is no
\* alignment, and if a line handler raised, the assembly has built no
\* sequence; an alignment exists only in the result state, which the
\* assembly alone reaches, without error.
C17_Step ==
    /\ pc # "Error"
    /\ pc' = "Error" =>
          /\ err' # "none"
          /\ result' = <<>>
          /\ pc \in {"ScanningData", "ScanningMarkup"} =>
                (seqs' = <<>> /\ pos' = pos + 1)
    /\ pc' # "Error" => err' = "none"
    /\ pc' = "Done" => (pc = "Assembling" /\ result' # <<>>)
    /\ pc' # "Done" => result' = <<>>

\* C17: once a handler has raised, the reader takes no further step: no
\* later line is processed, the assembly does not run and no alignment is
\* returned; the error state is terminal and excludes the result state.
C17_ErrorIsTerminal == [][C17_Step]_vars

\* A line handler has raised before the last line of the stream, and a
\* markup line after it remains unread; no sequence was built.
C17_Witness ==
    /\ pc = "Error"
    /\ err \in {"MultipleDataLines", "DuplicateGC", "DuplicateGR",
                "NonexistentData"}
    /\ pos < Len(fh)
    /\ \E j \in (pos + 1)..Len(fh) : IsMarkup(fh[j])
    /\ seqs = <<>>
    /\ result = <<>>

\* The frame of a step of the markup pass at the line it reads: the labels,
\* their order and the sequences stay; a GF or GC line leaves the records as
\* they are, a GF line the column metadata and a GC line the alignment
\* metadata; a GS or GR line leaves the alignment metadata, the column
\* metadata and every record but the one it names, of which a GS line
\* leaves the positional metadata and a GR line the metadata.
C18_Step ==
    (pc = "ScanningMarkup" /\ pos < Len(fh)) =>
        LET line == fh[pos + 1]
        IN /\ Registry(dna_data') = Registry(dna_data)
           /\ (IsGF(line) \/ IsGC(line)) => dna_data' = dna_data
           /\ IsGF(line) => positional_metadata' = positional_metadata
           /\ IsGC(line) => metadata' = metadata
           /\ (IsGS(line) \/ IsGR(line)) =>
                 /\ metadata' = metadata
                 /\ positional_metadata' = positional_metadata
                 /\ \A i \in 1..Len(dna_data) :
                       /\ (~HasRef(line) \/ dna_data[i].name # RefLabel(line))
                             => dna_data'[i] = dna_data[i]
                       /\ IsGS(line) => dna_data'[i].pos_metadata
                                           = dna_data[i].pos_metadata
                       /\ IsGR(line) => dna_data'[i].metadata
                                           = dna_data[i].metadata

\* C18: every step of the markup pass leaves the set of records, their
\* order and their sequences unchanged; a GF or GC line leaves every
\* record's metadata and positional metadata unchanged, and a GS or GR line
\* changes only the record of the label it names and neither the alignment
\* metadata nor the column metadata.
C18_MarkupFrame == [][C18_Step]_vars

\* The markup pass has just read a GS or GR line: of the records, one holds
\* metadata or positional metadata and another holds none.
C18_Witness ==
    /\ pc = "ScanningMarkup"
    /\ pos >= 1
    /\ IsGS(fh[pos]) \/ IsGR(fh[pos])
    /\ \E i, j \in 1..Len(dna_data) :
          /\ DOMAIN dna_data[i].metadata # {}
                \/ DOMAIN dna_data[i].pos_metadata # {}
          /\ DOMAIN dna_data[j].metadata = {}
          /\ DOMAIN dna_data[j].pos_metadata = {}

\* v is the list of the single characters of a field, in order.
CharsOf(v, field) ==
    /\ Len(v) = Len(field)
    /\ \A j \in 1..Len(field) : v[j] = <<field[j]>>

\* The lines among the first n of a stream have their column data stored
\* as they stand: a GR line's fourth field under its feature in the
\* positional metadata pm(label) of its label, a GC line's third field
\* under its feature in the column metadata cm.
StoredVerbatim(f, n, pm(_), cm) ==
    \A i \in 1..n :
        LET l == split(f[i])
        IN /\ IsGR(f[i]) =>
                 /\ Len(l) >= 4
                 /\ l[3] \in DOMAIN pm(l[2])
                 /\ CharsOf(pm(l[2])[l[3]], l[4])
           /\ IsGC(f[i]) =>
                 /\ Len(l) >= 3
                 /\ l[2] \in DOMAIN cm
                 /\ CharsOf(cm[l[2]], l[3])

\* The positional metadata of the record, and of the sequence, of a label.
RecordPM(label) ==
    IF \E k \in 1..Len(dna_data) : dna_data[k].name = label
    THEN dna_data[CHOOSE k \in 1..Len(dna_data) :
                      dna_data[k].name = label].pos_metadata
    ELSE EmptyDict

ResultPM(label) ==
    LET r == result[1]
    IN IF \E k \in 1..Len(r.index) : r.index[k] = label
       THEN r.seqs[CHOOSE k \in 1..Len(r.index) :
                       r.index[k] = label].positional_metadata.d
       ELSE EmptyDict

\* C19: for every GR line the markup pass has accepted, the value stored
\* under its label and feature is the list of the single characters of the
\* line's fourth whitespace-delimited field, in order and of its length,
\* and for every accepted GC line the value stored under its feature is that
\* of the third field; the alignment carries the same values.
C19_ColumnDataVerbatim ==
    /\ pc \in {"ScanningMarkup", "Assembling"} =>
          StoredVerbatim(fh, pos, RecordPM, positional_metadata)
    /\ pc = "Done" =>
          StoredVerbatim(fh, Len(fh), ResultPM, result[1].positional_metadata.d)

\* The markup pass has stored a GR value of two characters for a sequence
\* of two columns and a GC value of three characters.
C19_Witness ==
    /\ pc = "Assembling"
    /\ \E k \in 1..Len(dna_data) :
          /\ Len(dna_data[k].seq) = 2
          /\ \E g \in DOMAIN dna_data[k].pos_metadata :
                dna_data[k].pos_metadata[g] = << <<"x">>, <<"y">> >>
    /\ \E g \in DOMAIN positional_metadata :
          positional_metadata[g] = << <<"x">>, <<"y">>, <<"z">> >>

\* The rule line i of a stream violates as a markup line, given the labels
\* of all the data lines and the markup lines before it: a GS or GR line
\* that names a label no data line carries, a GR line that repeats the
\* (label, feature) pair of an earlier one, a GC line that repeats the
\* feature of an earlier one; "none" otherwise.
MarkupViolation(f, i) ==
    IF IsGS(f[i])
    THEN IF /\ Len(FieldsSp(f[i], 3)) >= 3
            /\ FieldsSp(f[i], 3)[2] \notin DataLabelSet(f)
         THEN "NonexistentData" ELSE "none"
    ELSE IF IsGR(f[i])
    THEN IF Len(split(f[i])) < 3 THEN "none"
         ELSE IF split(f[i])[2] \notin DataLabelSet(f) THEN "NonexistentData"
         ELSE IF i \in RepeatGR(f, i) THEN "DuplicateGR"
         ELSE "none"
    ELSE IF i \in RepeatGC(f) THEN "DuplicateGC"
    ELSE "none"

Offenders(f) == {i \in 1..Len(f) : MarkupViolation(f, i) # "none"}

MarkupErrors == {"NonexistentData", "DuplicateGR", "DuplicateGC"}

\* No data line of a stream lacks its sequence field.
NoShortData(f) == \A k \in DataIdx(f) : Len(split(f[k])) >= 2

\* C20: an input with a repeated data label and a markup violation ends
\* with the multiple-data-lines error, wherever the offending markup line
\* stands, and an input whose only violations are markup violations ends
\* with the error of the first offending markup line in file order.
C20_DataErrorAlways ==
    /\ (Terminal /\ RepeatData(fh) # {} /\ Offenders(fh) # {}) =>
          (pc = "Error" /\ err = "MultipleDataLines")
    /\ (Terminal /\ RepeatData(fh) = {} /\ NoShortData(fh)
           /\ Offenders(fh) # {}) =>
          /\ pc = "Error"
          /\ pos = Min(Offenders(fh))
          /\ err = MarkupViolation(fh, pos)

\* The same for the inputs in which every data line before the first
\* repeated label has its sequence field.
C20_WithoutShortLine ==
    /\ (Terminal /\ RepeatData(fh) # {} /\ Offenders(fh) # {}
           /\ ~ShortDataBefore(fh, Min(RepeatData(fh)))) =>
          (pc = "Error" /\ err = "MultipleDataLines")
    /\ (Terminal /\ RepeatData(fh) = {} /\ NoShortData(fh)
           /\ Offenders(fh) # {}) =>
          /\ pc = "Error"
          /\ pos = Min(Offenders(fh))
          /\ err = MarkupViolation(fh, pos)

\* The data pass has raised the multiple-data-lines error on a stream whose
\* first line is an offending markup line, before both data lines of the
\* repeated label.
C20_DataErrorReached ==
    /\ pc = "Error"
    /\ err = "MultipleDataLines"
    /\ 1 \in Offenders(fh)
    /\ Min(RepeatData(fh)) > 1

\* The markup pass has raised the error of the first of two offending
\* markup lines of different kinds.
C20_MarkupErrorReached ==
    /\ pc = "Error"
    /\ err \in MarkupErrors
    /\ \E i \in Offenders(fh) :
          i > pos /\ MarkupViolation(fh, i) # MarkupViolation(fh, pos)

====
